---------------------------- MODULE Spec2Model ----------------------------
(***************************************************************************)
(* A model of TradingLab's two core computations:                          *)
(*   - RedCandleStrategy._apply_red_candle_theory (src/strategy/           *)
(*     red_candle.py): the per-trading-day scan that finds the first red   *)
(*     candle R, the candle I that closes beyond R, and the entry signals  *)
(*     beyond I;                                                           *)
(*   - StrategyBacktester (src/analysis/backtester.py): the forward scan   *)
(*     that turns each entry signal into a trade, and the statistics       *)
(*     folded over the trades.                                             *)
(*                                                                         *)
(* Prices are integers 1..MaxPrice.  A cell of the bar table is drawn     *)
(* when the code reads it: the scan of a day draws open/close while it     *)
(* looks for R, close while it looks for I and for entries, and high/low   *)
(* only of R and I, the two bars whose high and low the code reads.        *)
(* Python's None and pandas' NaN are the value 0, which is no price.       *)
(***************************************************************************)
EXTENDS Integers, Sequences, FiniteSets, TLC

\* ------------------------------------------------------------------ bounds
MaxPrice == 3
MaxBars == 6

Prices == 1..MaxPrice

\* None (first_red_idx, candle_i_idx) and NaN (stoploss)
NoIdx == 0
NaN == 0

\* A day needs at least this many candles to be scanned.
MinDayLen == 4

VARIABLES
    \* ---- _apply_red_candle_theory: the locals of the per-day loop
    pc,                     \* where the scan of the day stands
    dayLen,                 \* len(day_df)
    idx,                    \* position in day_df of the next bar to read
    first_red_idx, r_high, r_low,
    candle_i_idx, i_high, i_low,
    high_signal_generated, low_signal_generated, last_close,
    row,                    \* the df row of the bar read last, as written
    \* ---- bookkeeping about the current day (not program state)
    sawBearish,             \* a bar after the opening one had close < open
    nLong, nShort,          \* entries flagged in the current day
    path,                   \* shape of the closes after I (see PathNext)
    prevAbove, prevBelow,   \* the bar before `row` was after I and closed
                            \* above i_high / below i_low
    outcome,                \* how the last finished day ended
    fresh,                  \* the locals and the flags of the last row in a
                            \* call that is given the current day alone
    nAnchor, nBreakout,     \* rows of the day flagged first_red_candle,
                            \* rows of the day flagged candle_i
    latch,                  \* the armed_high / armed_low latch machine run
                            \* on the same closes, and what it emits
    \* ---- StrategyBacktester._process_profit_target / _process_risk_reward
    bpc,                    \* where the call stands
    cfg,                    \* its arguments and the size of df
    sim,                    \* the locals of the trade being simulated
    acc,                    \* the counters and sums of the loop over entries
    trades,                 \* the list `trades`
    results                 \* the dict the call returns

detVars == <<pc, dayLen, idx, first_red_idx, r_high, r_low, candle_i_idx,
             i_high, i_low, high_signal_generated,
             low_signal_generated, last_close, row, sawBearish,
             nLong, nShort, path, prevAbove, prevBelow, outcome, fresh,
             latch, nAnchor, nBreakout>>

btVars == <<bpc, cfg, sim, acc, trades, results>>

\* backtest(): the three lists of the call, the loop it is in, what it built
VARIABLES
    dpc,                    \* "none", "call", "pct", "rr", "dollar", "returned", "raised"
    has_columns,            \* df has entry_signal, signal_type and stoploss
    profit_targets,         \* [none, list]: None, or the list given
    risk_reward_ratios,
    profit_targets_dollar,
    it,                     \* position of the running for loop in its list
    test_results,           \* the dict being built: key -> aggregate
    self_results,           \* self.results
    self_trades,            \* self.trades: one batch per _process_* call
    call_no,                \* which call of backtest() on the object this is
    error                   \* the exception that ended the call, "" if none

callVars == <<dpc, has_columns, profit_targets, risk_reward_ratios,
              profit_targets_dollar, it, test_results, self_results,
              self_trades, call_no, error>>

\* The calls of backtest() made on one backtester.
MaxCalls == 2

\* generate_signals(): the frames it works on and where the call stands
VARIABLES
    gpc,                    \* "none", "called", "copied", "indexed", "marked",
                            \* "theory", "applied", "filter", "returned",
                            \* "raised"
    given,                  \* the caller's frame as it was at the call
    heap,                   \* the DataFrame objects: identity -> frame
    df,                     \* the object the local name df is bound to
    use_additional_filters, \* self.use_additional_filters
    table,                  \* the signal columns of df, one entry per row
    unfiltered,             \* `table` as _apply_red_candle_theory returned it
    fi,                     \* the row the filter's assignments have reached
    gen_error,              \* the exception that ended the call, "" if none
    returned                \* the object returned, NoObject if none

genVars == <<gpc, given, heap, df, use_additional_filters, table, unfiltered,
             fi, gen_error, returned>>

\* The rows generate_signals may be given in one call.
MaxTable == 5

\* StreamingStrategyAdapter, for one ticker and one timeframe
VARIABLES
    apc,                    \* where the adapter stands: "none", "new",
                            \* "fetching" (start() called, historical data
                            \* awaited), "live" (handle_live_data subscribed)
    running,                \* self.running
    data_buffer,            \* self.data_buffers[ticker][timeframe]
    published,              \* the calls of event_client.publish_signal: the
                            \* timestamp of the signal, and the timestamp of
                            \* the message being processed
    clock                   \* the timestamp of the next candle

streamVars == <<apc, running, data_buffer, published, clock>>

\* Candles the market-data source sends, historical candles in one response,
\* candles the buffer keeps (buffer_size, 100 by default).
MaxCandles == 6
MaxHistory == 2
buffer_size == 4

\* ------------------------------------------------------- the detector's tests
\* a doji taken for a red candle
IsRed_orEqual(open, close) == close <= open

\* red_candle.py:106  a candle is red when it closes below its open
IsRed(open, close) == close < open

\* a close that only touches R's high taken for a break
BreaksRHigh_orEqual(close, rh) == close >= rh

\* red_candle.py:130 / 135  candle I closes beyond R's high / low
BreaksRHigh(close, rh) == close > rh
BreaksRLow(close, rl) == close < rl

\* red_candle.py:161 / 163  price moved back inside I's range
ResetHigh(last, cur, ih) == last > ih /\ cur <= ih
ResetLow(last, cur, il) == last < il /\ cur >= il

\* a close that only touches I's high taken for a break
AboveIHigh_orEqual(cur, ih) == cur >= ih

\* red_candle.py:167 / 177
AboveIHigh(cur, ih) == cur > ih
BelowILow(cur, il) == cur < il

\* the latch and the previous close ignored: every close beyond the level fires
LongFires_always(last, ih, generated) == TRUE
ShortFires_always(last, il, generated) == TRUE

\* red_candle.py:170 / 180
LongFires(last, ih, generated) == last <= ih \/ ~generated
ShortFires(last, il, generated) == last >= il \/ ~generated

\* the short test made an `if` of its own
ShortBranch_if(above, below) == below

\* red_candle.py:167, 177  `if current_close > i_high: ... elif current_close
\* < i_low:` the short test is reached only when the long test failed
ShortBranch(above, below) == ~above /\ below

\* the stop of a long taken at I's high
LongStop_high(ih, il) == ih

\* red_candle.py:172 / 182
LongStop(ih, il) == il
ShortStop(ih, il) == ih

\* a day of three candles scanned
TooShort_three(n) == n < MinDayLen - 1

\* red_candle.py:92  `if len(day_df) < 4: continue`
TooShort(n) == n < MinDayLen

\* the first candle of the day left in day_data
ScanFrom_first(first_pos) == first_pos

\* red_candle.py:97  day_data is day_df without its first candle
ScanFrom(first_pos) == first_pos + 1

\* the latch of the day before kept
LatchStart_kept(previous) == previous

\* red_candle.py:150-151  both latches are cleared when candle I is found
LatchStart(previous) == FALSE

\* red_candle.py:158-187  one iteration of the entry loop on close c, from
\* the previous close, I's levels and the two latches
EntryOutcome(c, last, ih, il, high_generated, low_generated) ==
    LET resetH == ResetHigh(last, c, ih)
        resetL == ~resetH /\ ResetLow(last, c, il)
        hsg == IF resetH THEN FALSE ELSE high_generated
        lsg == IF resetL THEN FALSE ELSE low_generated
        above == AboveIHigh(c, ih)
        long == above /\ LongFires(last, ih, hsg)
        short == ShortBranch(above, BelowILow(c, il))
                 /\ ShortFires(last, il, lsg)
    IN  [long_entry |-> long, short_entry |-> short,
         stoploss |-> IF long THEN LongStop(ih, il)
                      ELSE IF short THEN ShortStop(ih, il) ELSE NaN,
         signal_type |-> IF long THEN "LONG"
                         ELSE IF short THEN "SHORT" ELSE "",
         high_signal_generated |-> (hsg \/ long),
         low_signal_generated |-> (lsg \/ short)]

\* The latch machine the entry loop is compared with: both latches armed when
\* the breakout candle is found; a close beyond a level emits if the latch of
\* that level is armed and disarms it, LONG first; a close that comes back
\* from beyond a level arms its latch again.
MachineStart ==
    [armed_high |-> TRUE, armed_low |-> TRUE, long |-> FALSE, short |-> FALSE]
MachineStep(m, c, last, ih, il) ==
    LET long == c > ih /\ m.armed_high
        short == ~long /\ c < il /\ m.armed_low
    IN  [long |-> long, short |-> short,
         armed_high |-> IF last > ih /\ c <= ih THEN TRUE
                        ELSE IF long THEN FALSE ELSE m.armed_high,
         armed_low |-> IF last < il /\ c >= il THEN TRUE
                       ELSE IF short THEN FALSE ELSE m.armed_low]

\* the call on the current day alone, before the day's first bar
FreshStart ==
    [r_high |-> 0, r_low |-> 0, i_high |-> 0, i_low |-> 0,
     high_signal_generated |-> FALSE, low_signal_generated |-> FALSE,
     last_close |-> 0, first_red_candle |-> FALSE, candle_i |-> FALSE,
     long_entry |-> FALSE, short_entry |-> FALSE, stoploss |-> NaN,
     diverged |-> FALSE]
NoFlags(f) ==
    [f EXCEPT !.first_red_candle = FALSE, !.candle_i = FALSE,
              !.long_entry = FALSE, !.short_entry = FALSE, !.stoploss = NaN]

\* red_candle.py:78-83  the signal columns of a row before the scan writes them
BlankRow(pos, close) ==
    [pos |-> pos, close |-> close, is_first_candle |-> FALSE,
     first_red_candle |-> FALSE, candle_i |-> FALSE,
     long_entry |-> FALSE, short_entry |-> FALSE,
     stoploss |-> NaN, signal_type |-> ""]

\* red_candle.py:190
EntrySignal(r) == r.long_entry \/ r.short_entry

\* Shape of the closes after I, for the re-arm scenario: possibly some closes
\* inside I's range first ("start"), a run above i_high (A1), then a run back
\* at or below i_high and not below i_low (B), then a second run above i_high
\* (A2).  Anything else is "off".
PathNext(p, c, ih, il) ==
    LET above == c > ih /\ c >= il
        inside == c <= ih /\ c >= il
    IN  CASE p = "start" /\ above -> "A1"
          [] p = "start" /\ inside -> "start"
          [] p = "A1" /\ above -> "A1"
          [] p = "A1" /\ inside -> "B"
          [] p = "B" /\ inside -> "B"
          [] p = "B" /\ above -> "A2"
          [] p = "A2" /\ above -> "A2"
          [] OTHER -> "off"

\* -------------------------------------------------------------- detector
DetInit ==
    /\ pc = "idle"
    /\ dayLen = 0
    /\ idx = 0
    /\ first_red_idx = NoIdx /\ r_high = 0 /\ r_low = 0
    /\ candle_i_idx = NoIdx
    /\ i_high = 0 /\ i_low = 0
    /\ high_signal_generated = FALSE /\ low_signal_generated = FALSE
    /\ last_close = 0
    /\ row = BlankRow(0, 0)
    /\ sawBearish = FALSE
    /\ nLong = 0 /\ nShort = 0 /\ path = "start"
    /\ prevAbove = FALSE /\ prevBelow = FALSE
    /\ outcome = ""
    /\ fresh = FreshStart
    /\ latch = MachineStart
    /\ nAnchor = 0 /\ nBreakout = 0

\* Between two days the levels, the latches and last_close keep the values
\* the finished day left in them (they are locals of the function, not of
\* the loop body).  The loop variables and the bookkeeping start afresh, and
\* the two positions are None again, which lines 103 and 124 make them
\* before the next day reads them.
DayOver(how) ==
    /\ pc' = "idle"
    /\ first_red_idx' = NoIdx /\ candle_i_idx' = NoIdx
    /\ outcome' = how
    /\ dayLen' = 0 /\ idx' = 0
    /\ row' = BlankRow(0, 0)
    /\ sawBearish' = FALSE
    /\ nLong' = 0 /\ nShort' = 0 /\ path' = "start"
    /\ prevAbove' = FALSE /\ prevBelow' = FALSE
    /\ fresh' = FreshStart
    /\ latch' = MachineStart
    /\ nAnchor' = 0 /\ nBreakout' = 0

\* red_candle.py:78-83, 109, 139, 170-184  the signal columns of one row
Flags(r) ==
    [first_red_candle |-> r.first_red_candle, candle_i |-> r.candle_i,
     long_entry |-> r.long_entry, short_entry |-> r.short_entry,
     stoploss |-> r.stoploss, signal_type |-> r.signal_type]

\* red_candle.py:67, 86  the per-day loop runs on its own or inside a call of
\* generate_signals, whose table has room for n more rows
Scanning == gpc \in {"none", "theory"}
Fits(n) == gpc = "theory" => Len(table) + n <= MaxTable

\* the rows the step has finished become part of the table of the call
Annotate(rows) ==
    /\ table' = IF gpc = "theory" THEN table \o rows ELSE table
    /\ UNCHANGED <<gpc, given, heap, df, use_additional_filters, unfiltered,
                   fi, gen_error, returned>>

codeLocals == <<r_high, r_low, i_high, i_low, high_signal_generated,
                low_signal_generated, last_close>>

\* red_candle.py:86-100  a day with fewer than 4 candles is skipped; its
\* first candle is the only row generate_signals (60-64) has marked.
SkipShortDay ==
    /\ Scanning
    /\ pc = "idle"
    /\ \E n \in 1..MaxBars :
         /\ TooShort(n) /\ Fits(n)
         /\ Annotate([i \in 1..n |-> Flags(BlankRow(i, 0))])
    /\ DayOver("short")
    /\ UNCHANGED codeLocals
    /\ UNCHANGED <<btVars, callVars, streamVars>>

\* red_candle.py:86-103  a day with at least 4 candles: the first candle is
\* dropped from day_data and the search for the first red candle begins.
BeginDay ==
    /\ Scanning
    /\ pc = "idle"
    /\ \E n \in 1..MaxBars : ~TooShort(n) /\ Fits(n) /\ dayLen' = n
    /\ row' = [BlankRow(1, 0) EXCEPT !.is_first_candle = TRUE]
    /\ idx' = ScanFrom(1)
    /\ first_red_idx' = NoIdx
    /\ pc' = "red"
    /\ outcome' = ""
    /\ UNCHANGED <<sawBearish, nLong, nShort, path, prevAbove, prevBelow,
                   fresh, latch, nAnchor, nBreakout>>
    /\ UNCHANGED <<r_high, r_low, candle_i_idx, i_high, i_low,
                   high_signal_generated, low_signal_generated, last_close>>
    /\ Annotate(<<Flags(row')>>)
    /\ UNCHANGED <<btVars, callVars, streamVars>>

\* red_candle.py:104-125  one iteration of the search for the first red candle
FindFirstRed ==
    /\ Scanning
    /\ pc = "red" /\ idx <= dayLen
    /\ \E c \in Prices :
      \E t \in {<<IsRed(o, c), c < o>> : o \in Prices} :
        /\ sawBearish' = (sawBearish \/ t[2])
        /\ IF t[1]
           THEN \E h \in Prices, l \in Prices :
                /\ first_red_idx' = idx
                /\ row' = [BlankRow(idx, c) EXCEPT !.first_red_candle = TRUE]
                /\ r_high' = h /\ r_low' = l
                /\ candle_i_idx' = NoIdx
                /\ pc' = "candle_i"
                /\ fresh' = [NoFlags(fresh) EXCEPT
                               !.first_red_candle = TRUE,
                               !.r_high = h, !.r_low = l]
           ELSE /\ row' = BlankRow(idx, c)
                /\ fresh' = NoFlags(fresh)
                /\ UNCHANGED <<first_red_idx, r_high, r_low, candle_i_idx, pc>>
    /\ idx' = idx + 1
    /\ nAnchor' = nAnchor + (IF row'.first_red_candle THEN 1 ELSE 0)
    /\ UNCHANGED <<dayLen, i_high, i_low, high_signal_generated,
                   low_signal_generated, last_close, nLong, nShort, path,
                   prevAbove, prevBelow, outcome, latch, nBreakout>>
    /\ Annotate(<<Flags(row')>>)
    /\ UNCHANGED <<btVars, callVars, streamVars>>

\* red_candle.py:111-113  no red candle in the day
NoRedCandle ==
    /\ Scanning
    /\ pc = "red" /\ idx > dayLen
    /\ DayOver("nored")
    /\ UNCHANGED codeLocals
    /\ Annotate(<<>>)
    /\ UNCHANGED <<btVars, callVars, streamVars>>

\* red_candle.py:127-154  one iteration of the search for candle I
FindCandleI ==
    /\ Scanning
    /\ pc = "candle_i" /\ idx <= dayLen
    /\ \E c \in Prices :
       LET alone == BreaksRHigh(c, fresh.r_high) \/ BreaksRLow(c, fresh.r_low)
       IN
        IF BreaksRHigh(c, r_high) \/ BreaksRLow(c, r_low)
        THEN \E h \in Prices, l \in Prices :
             /\ candle_i_idx' = idx
             /\ row' = [BlankRow(idx, c) EXCEPT !.candle_i = TRUE]
             /\ i_high' = h /\ i_low' = l
             /\ high_signal_generated' = LatchStart(high_signal_generated)
             /\ low_signal_generated' = LatchStart(low_signal_generated)
             /\ last_close' = c
             /\ pc' = "entry"
             /\ fresh' = [NoFlags(fresh) EXCEPT
                   !.candle_i = alone,
                   !.i_high = h, !.i_low = l,
                   !.high_signal_generated =
                       LatchStart(fresh.high_signal_generated),
                   !.low_signal_generated =
                       LatchStart(fresh.low_signal_generated),
                   !.last_close = c,
                   !.diverged = fresh.diverged \/ ~alone]
        ELSE /\ row' = BlankRow(idx, c)
             /\ fresh' = [NoFlags(fresh) EXCEPT
                            !.diverged = fresh.diverged \/ alone]
             /\ UNCHANGED <<candle_i_idx, i_high, i_low,
                            high_signal_generated, low_signal_generated,
                            last_close, pc>>
    /\ idx' = idx + 1
    /\ nBreakout' = nBreakout + (IF row'.candle_i THEN 1 ELSE 0)
    /\ UNCHANGED <<dayLen, first_red_idx, r_high, r_low, sawBearish, nLong,
                   nShort, path, prevAbove, prevBelow, outcome, latch,
                   nAnchor>>
    /\ Annotate(<<Flags(row')>>)
    /\ UNCHANGED <<btVars, callVars, streamVars>>

\* red_candle.py:141-143  no candle I in the day
NoCandleI ==
    /\ Scanning
    /\ pc = "candle_i" /\ idx > dayLen
    /\ DayOver("noi")
    /\ UNCHANGED codeLocals
    /\ Annotate(<<>>)
    /\ UNCHANGED <<btVars, callVars, streamVars>>

\* red_candle.py:157-187  one iteration of the entry loop
EntryStep ==
    /\ Scanning
    /\ pc = "entry" /\ idx <= dayLen
    /\ \E c \in Prices :
        LET out == EntryOutcome(c, last_close, i_high, i_low,
                                high_signal_generated, low_signal_generated)
            alone == EntryOutcome(c, fresh.last_close, fresh.i_high,
                                  fresh.i_low, fresh.high_signal_generated,
                                  fresh.low_signal_generated)
        IN  /\ row' = [BlankRow(idx, c) EXCEPT
                         !.long_entry = out.long_entry,
                         !.short_entry = out.short_entry,
                         !.stoploss = out.stoploss,
                         !.signal_type = out.signal_type]
            /\ high_signal_generated' = out.high_signal_generated
            /\ low_signal_generated' = out.low_signal_generated
            /\ last_close' = c
            /\ nLong' = nLong + (IF out.long_entry THEN 1 ELSE 0)
            /\ nShort' = nShort + (IF out.short_entry THEN 1 ELSE 0)
            /\ fresh' = [NoFlags(fresh) EXCEPT
                  !.long_entry = alone.long_entry,
                  !.short_entry = alone.short_entry,
                  !.stoploss = alone.stoploss,
                  !.high_signal_generated = alone.high_signal_generated,
                  !.low_signal_generated = alone.low_signal_generated,
                  !.last_close = c]
            /\ path' = PathNext(path, c, i_high, i_low)
            /\ latch' = MachineStep(latch, c, last_close, i_high, i_low)
    /\ prevAbove' = (row.pos > candle_i_idx /\ row.close > i_high)
    /\ prevBelow' = (row.pos > candle_i_idx /\ row.close < i_low)
    /\ idx' = idx + 1
    /\ UNCHANGED <<pc, dayLen, first_red_idx, r_high, r_low, candle_i_idx,
                   i_high, i_low, sawBearish, outcome, nAnchor, nBreakout>>
    /\ Annotate(<<Flags(row')>>)
    /\ UNCHANGED <<btVars, callVars, streamVars>>

\* red_candle.py:157, 86  the entry loop is exhausted: on to the next day
EndDay ==
    /\ Scanning
    /\ pc = "entry" /\ idx > dayLen
    /\ DayOver("scanned")
    /\ UNCHANGED codeLocals
    /\ Annotate(<<>>)
    /\ UNCHANGED <<btVars, callVars, streamVars>>

DetNext ==
    \/ SkipShortDay
    \/ BeginDay
    \/ FindFirstRed
    \/ NoRedCandle
    \/ FindCandleI
    \/ NoCandleI
    \/ EntryStep
    \/ EndDay


\* ===================================================== generate_signals
\* A DataFrame object is a frame: the kind of its index, its column names and
\* the dtype of its 'date' column.  The names df and the caller's table are
\* bound to objects of the heap, so a write through one name shows through
\* every name bound to the same object.  Row contents are drawn as the
\* per-day loop reads them; `table` holds the signal columns it has written.

\* red_candle.py:18  the defaults of the constructor (volume factor in tenths)
rsi_threshold == 30
volume_factor == 15

Objects == 1..3
NoObject == 0
NoFrame == [index |-> "", columns |-> {}, date_dtype |-> ""]
OHLCV == {"open", "high", "low", "close", "volume"}

\* the tables a caller may pass
CallerFrames ==
    {[index |-> i,
      columns |-> OHLCV \cup (IF d = "" THEN {} ELSE {"date"}),
      date_dtype |-> d] :
        i \in {"datetime", "range"}, d \in {"", "datetime", "object"}}

\* the input itself taken for its copy
CopyOf_same(object) == object

\* red_candle.py:44  df.copy() is a new object
CopyOf(object) == object + 1

\* any index taken for a datetime index
IsDatetimeIndex_any(frame) == TRUE

\* red_candle.py:47-48  the two tests of the index check
IsDatetimeIndex(frame) == frame.index = "datetime"
HasDateColumn(frame) == "date" \in frame.columns

\* red_candle.py:49  df.set_index('date')
SetIndex(frame) ==
    [index |-> frame.date_dtype, columns |-> frame.columns \ {"date"},
     date_dtype |-> ""]

\* red_candle.py:54, 57, 78-83, 190, 207, 210  the columns the call adds
MarkColumns == {"is_first_candle", "trading_day"}
SignalColumns ==
    {"first_red_candle", "candle_i", "long_entry", "short_entry", "stoploss",
     "signal_type"}
FilterColumns == {"rsi", "volume_ratio"}
AddColumns(frame, names) == [frame EXCEPT !.columns = @ \cup names]

\* red_candle.py:206, 210  an RSI and a volume ratio (in tenths) of a row;
\* NaN while the rolling windows are not full
RsiValues == {NaN, 30, 50, 70}
VolumeRatios == {NaN, 10, 15}

\* red_candle.py:215-217 / 223-225  the condition assigned to an entry row;
\* a comparison with NaN is False
LongKeeps(rsi, volume_ratio) ==
    /\ rsi # NaN /\ rsi <= rsi_threshold
    /\ volume_ratio # NaN /\ volume_ratio >= volume_factor
ShortKeeps(rsi, volume_ratio) ==
    /\ rsi # NaN /\ rsi >= 100 - rsi_threshold
    /\ volume_ratio # NaN /\ volume_ratio >= volume_factor

\* the condition assigned to every row
Filtered_all(flag, keep) == keep

\* red_candle.py:214-215 / 222-223  df.loc[entries, column] = condition
\* assigns to the rows that carry an entry and to no other row
Filtered(flag, keep) == IF flag THEN keep ELSE flag

GenParked ==
    /\ gpc = "none"
    /\ given = NoFrame
    /\ heap = [o \in Objects |-> NoFrame]
    /\ df = NoObject
    /\ use_additional_filters = FALSE
    /\ table = <<>> /\ unfiltered = <<>>
    /\ fi = 0
    /\ gen_error = ""
    /\ returned = NoObject

\* red_candle.py:18-31, 33  a strategy object and a call of generate_signals
GenInit ==
    /\ gpc = "called"
    /\ given \in CallerFrames
    /\ heap = [o \in Objects |-> IF o = 1 THEN given ELSE NoFrame]
    /\ df = 1
    /\ use_additional_filters \in BOOLEAN
    /\ table = <<>> /\ unfiltered = <<>>
    /\ fi = 0
    /\ gen_error = ""
    /\ returned = NoObject

\* red_candle.py:44  df = df.copy()
CopyInput ==
    /\ gpc = "called"
    /\ df' = CopyOf(df)
    /\ heap' = [heap EXCEPT ![CopyOf(df)] = heap[df]]
    /\ gpc' = "copied"
    /\ UNCHANGED <<given, use_additional_filters, table, unfiltered, fi,
                   gen_error, returned>>
    /\ UNCHANGED <<detVars, btVars, callVars, streamVars>>

\* red_candle.py:47-51  the index check
CheckIndex ==
    /\ gpc = "copied"
    /\ IF IsDatetimeIndex(heap[df])
       THEN /\ gpc' = "indexed"
            /\ UNCHANGED <<heap, df, gen_error>>
       ELSE IF HasDateColumn(heap[df])
       THEN /\ df' = df + 1
            /\ heap' = [heap EXCEPT ![df + 1] = SetIndex(heap[df])]
            /\ gpc' = "indexed"
            /\ UNCHANGED gen_error
       ELSE /\ gen_error' = "ValueError"
            /\ gpc' = "raised"
            /\ UNCHANGED <<heap, df>>
    /\ UNCHANGED <<given, use_additional_filters, table, unfiltered, fi,
                   returned>>
    /\ UNCHANGED <<detVars, btVars, callVars, streamVars>>

\* red_candle.py:54-64  the first candle of each day is marked; df.index.date
\* exists on a datetime index only
MarkFirstCandles ==
    /\ gpc = "indexed"
    /\ IF heap[df].index = "datetime"
       THEN /\ heap' = [heap EXCEPT ![df] = AddColumns(@, MarkColumns)]
            /\ gpc' = "marked"
            /\ UNCHANGED gen_error
       ELSE /\ heap' = [heap EXCEPT
                          ![df] = AddColumns(@, {"is_first_candle"})]
            /\ gen_error' = "AttributeError"
            /\ gpc' = "raised"
    /\ UNCHANGED <<given, df, use_additional_filters, table, unfiltered, fi,
                   returned>>
    /\ UNCHANGED <<detVars, btVars, callVars, streamVars>>

\* red_candle.py:67, 78-86  _apply_red_candle_theory adds its columns and
\* starts the loop over the days
EnterTheory ==
    /\ gpc = "marked"
    /\ heap' = [heap EXCEPT ![df] = AddColumns(@, SignalColumns)]
    /\ gpc' = "theory"
    /\ UNCHANGED <<given, df, use_additional_filters, table, unfiltered, fi,
                   gen_error, returned>>
    /\ UNCHANGED <<detVars, btVars, callVars, streamVars>>

\* red_candle.py:86, 190-192  no day is left: entry_signal is added and the
\* frame goes back to generate_signals
TheoryDone ==
    /\ gpc = "theory" /\ pc = "idle"
    /\ heap' = [heap EXCEPT ![df] = AddColumns(@, {"entry_signal"})]
    /\ unfiltered' = table
    /\ gpc' = "applied"
    /\ UNCHANGED <<given, df, use_additional_filters, table, fi, gen_error,
                   returned>>
    /\ UNCHANGED <<detVars, btVars, callVars, streamVars>>

\* red_candle.py:70-71, 196-210  _apply_additional_filters adds rsi and
\* volume_ratio
EnterFilters ==
    /\ gpc = "applied" /\ use_additional_filters
    /\ heap' = [heap EXCEPT ![df] = AddColumns(@, FilterColumns)]
    /\ fi' = 1
    /\ gpc' = "filter"
    /\ UNCHANGED <<given, df, use_additional_filters, table, unfiltered,
                   gen_error, returned>>
    /\ UNCHANGED <<detVars, btVars, callVars, streamVars>>

\* red_candle.py:213-225  the two assignments, row by row: a row's long and
\* short flag are each replaced from the row's own rsi and volume_ratio
FilterRow ==
    /\ gpc = "filter" /\ fi <= Len(table)
    /\ \E rsi \in RsiValues, volume_ratio \in VolumeRatios :
         table' = [table EXCEPT ![fi] =
             [@ EXCEPT
                !.long_entry = Filtered(@, LongKeeps(rsi, volume_ratio)),
                !.short_entry = Filtered(@, ShortKeeps(rsi, volume_ratio))]]
    /\ fi' = fi + 1
    /\ UNCHANGED <<gpc, given, heap, df, use_additional_filters, unfiltered,
                   gen_error, returned>>
    /\ UNCHANGED <<detVars, btVars, callVars, streamVars>>

\* red_candle.py:73, 227-229  return df
ReturnFrame ==
    /\ \/ gpc = "applied" /\ ~use_additional_filters
       \/ gpc = "filter" /\ fi > Len(table)
    /\ returned' = df
    /\ gpc' = "returned"
    /\ UNCHANGED <<given, heap, df, use_additional_filters, table, unfiltered,
                   fi, gen_error>>
    /\ UNCHANGED <<detVars, btVars, callVars, streamVars>>

GenNext ==
    \/ CopyInput
    \/ CheckIndex
    \/ MarkFirstCandles
    \/ EnterTheory
    \/ DetNext
    \/ TheoryDone
    \/ EnterFilters
    \/ FilterRow
    \/ ReturnFrame


\* =========================================================== backtester
\* The bar table of a backtest run has nRows rows, numbered 1..nRows in index
\* order; a row's position stands for its timestamp.  The entry rows are drawn
\* in index order as the loop over entry_signals reaches them, and the low
\* and high of a later bar when the forward scan of a trade reads it; the
\* close of the last row, which every OPEN trade reads, is drawn once.
\* Quotes an exit can take (a percentage target is a fraction of a price) are
\* kept in hundredths, and so are dollars; a percentage P&L is kept as a
\* multiple of 1/PctDen, which every entry price divides.

MaxRows == 3
MaxQuote == 2

Quotes == 1..MaxQuote

\* backtester.py:26-27  the defaults of backtest()
position_size == 1
contracts == 1
contract_value == 100

\* backtester.py:153  percent
Hundred == 100

PctTargets == {50}
RRRatios == {1, 2}
\* commission and slippage, in percent
CostPairs == {<<0, 0>>, <<20, 40>>}
NoType == "NaN"

RECURSIVE Factorial(_)
Factorial(n) == IF n <= 1 THEN 1 ELSE n * Factorial(n - 1)
PctDen == Factorial(MaxQuote)

Abs(x) == IF x < 0 THEN -x ELSE x
Max(a, b) == IF a >= b THEN a ELSE b
Min(a, b) == IF a <= b THEN a ELSE b

\* A stoploss may lie beyond every price the bars of the table take.
StopLevels == 1..(MaxQuote + 1)

\* a move of `points` as a percentage of entry_price, a multiple of 1/PctDen
PctOf(points, entry_price) == points * Hundred * (PctDen \div entry_price)

\* the move against a long taken for every trade
AdverseMove_long(signal_type, entry_price, low, high) ==
    IF low < entry_price THEN PctOf(entry_price - low, entry_price) ELSE 0

\* backtester.py:192-194, 217-219 (463-465, 488-490)  current_excursion of a
\* bar that did not end the trade, 0 when the bar did not go against it
AdverseMove(signal_type, entry_price, low, high) ==
    IF signal_type = "LONG"
    THEN IF low < entry_price
         THEN PctOf(entry_price - low, entry_price) ELSE 0
    ELSE IF high > entry_price
         THEN PctOf(high - entry_price, entry_price) ELSE 0

\* backtester.py:196-198, 221-223 (467-469, 492-494)  current_favorable
FavorableMove(signal_type, entry_price, low, high) ==
    IF signal_type = "LONG"
    THEN IF high > entry_price
         THEN PctOf(high - entry_price, entry_price) ELSE 0
    ELSE IF low < entry_price
         THEN PctOf(entry_price - low, entry_price) ELSE 0

\* backtester.py:152-157  target of the percentage variant, in hundredths
PctTarget(signal_type, entry_price, profit_target) ==
    IF signal_type = "LONG"
    THEN entry_price * (Hundred + profit_target)
    ELSE entry_price * (Hundred - profit_target)

\* an event without a stoploss taken for a complete one
Skips_typeOnly(signal_type, stoploss) == signal_type = NoType

\* backtester.py:144 (413)  pd.isna(signal_type) or pd.isna(stoploss)
Skips(signal_type, stoploss) == signal_type = NoType \/ stoploss = NaN

\* backtester.py:421-428  target of the risk-reward variant, in hundredths
RRTarget(signal_type, entry_price, stop_loss, rr_ratio) ==
    IF signal_type = "LONG"
    THEN (entry_price + (entry_price - stop_loss) * rr_ratio) * Hundred
    ELSE (entry_price - (stop_loss - entry_price) * rr_ratio) * Hundred

TargetPrice(c, signal_type, entry_price, stop_loss) ==
    IF c.variant = "pct"
    THEN PctTarget(signal_type, entry_price, c.param)
    ELSE RRTarget(signal_type, entry_price, stop_loss, c.param)

\* backtester.py:178, 203 (449, 474)
StopHit(signal_type, low, high, stop_loss) ==
    IF signal_type = "LONG" THEN low <= stop_loss ELSE high >= stop_loss

\* backtester.py:185, 210 (456, 481)
TargetHit(signal_type, low, high, target) ==
    IF signal_type = "LONG" THEN high * Hundred >= target
                            ELSE low * Hundred <= target

\* the target tested before the stop
ExitCheck_targetFirst(signal_type, low, high, stop_loss, target) ==
    IF TargetHit(signal_type, low, high, target) THEN "TARGET"
    ELSE IF StopHit(signal_type, low, high, stop_loss) THEN "STOP"
    ELSE ""

\* backtester.py:176-214 (447-485)  what a future bar does to the trade
ExitCheck(signal_type, low, high, stop_loss, target) ==
    IF StopHit(signal_type, low, high, stop_loss) THEN "STOP"
    ELSE IF TargetHit(signal_type, low, high, target) THEN "TARGET"
    ELSE ""

\* backtester.py:180, 187 (451, 458)  in hundredths
ExitPrice(exit_type, stop_loss, target) ==
    IF exit_type = "STOP" THEN stop_loss * Hundred ELSE target

\* the scan beginning at the entry bar itself
ScanStart_atEntry(entry_idx) == entry_idx

\* backtester.py:171 (442)  range(entry_idx + 1, len(df))
ScanStart(entry_idx) == entry_idx + 1

\* commission and slippage left out
TradePlPct_noCosts(signal_type, entry_price, exit_price, commission, slippage) ==
    LET move == IF signal_type = "LONG"
                THEN exit_price - entry_price * Hundred
                ELSE entry_price * Hundred - exit_price
    IN  move * (PctDen \div entry_price)

\* backtester.py:232-235 (503-506)  as a multiple of 1/PctDen
TradePlPct(signal_type, entry_price, exit_price, commission, slippage) ==
    LET move == IF signal_type = "LONG"
                THEN exit_price - entry_price * Hundred
                ELSE entry_price * Hundred - exit_price
    IN  move * (PctDen \div entry_price) - (commission + slippage) * PctDen

\* the magnitude without its sign
DollarPl_unsigned(signal_type, entry_price, exit_price) ==
    Abs(exit_price - entry_price * Hundred) * contract_value * contracts

\* backtester.py:238-247 (509-517)  in hundredths of a dollar
DollarPl(signal_type, entry_price, exit_price) ==
    LET price_change == Abs(exit_price - entry_price * Hundred)
        total_dollar_value == price_change * contract_value * contracts
    IN  IF \/ signal_type = "LONG" /\ exit_price > entry_price * Hundred
           \/ signal_type = "SHORT" /\ exit_price < entry_price * Hundred
        THEN total_dollar_value
        ELSE -total_dollar_value

\* a trade that gained nothing counted as a win
PctWin_orZero(trade_pl_pct) == trade_pl_pct >= 0

\* backtester.py:273 (544)  a trade wins when its percentage P&L is positive
PctWin(trade_pl_pct) == trade_pl_pct > 0

\* the dollar counters following the percentage figure
DollarWin_byPct(dollar_pl, trade_pl_pct) == trade_pl_pct > 0

\* backtester.py:282  the dollar counters look at the dollar figure alone
DollarWin(dollar_pl, trade_pl_pct) == dollar_pl > 0

\* an open trade closed at its own entry price
OpenPrice_entry(final_close, entry_price) == entry_price * Hundred

\* backtester.py:228 (499)  df.iloc[-1]['close'], in hundredths
OpenPrice(final_close, entry_price) == final_close * Hundred

\* the sentinel lost: no losses reported as a profit factor of 0
ProfitFactor_zero(total_win_profit, total_loss) ==
    IF total_loss > 0
    THEN [inf |-> FALSE, num |-> total_win_profit, den |-> total_loss]
    ELSE [inf |-> FALSE, num |-> 0, den |-> 1]

\* backtester.py:339 (557)  a fraction num/den, or float('inf')
ProfitFactor(total_win_profit, total_loss) ==
    IF total_loss > 0
    THEN [inf |-> FALSE, num |-> total_win_profit, den |-> total_loss]
    ELSE [inf |-> TRUE, num |-> 0, den |-> 1]

\* backtester.py:294, 317  sorted(trades, key=entry_date)
RECURSIVE SortedTrades(_)
SortedTrades(ts) ==
    IF ts = <<>> THEN <<>>
    ELSE LET k == CHOOSE k \in 1..Len(ts) :
                    /\ \A j \in 1..Len(ts) : ts[k].entry_date <= ts[j].entry_date
                    /\ \A j \in 1..(k - 1) : ts[j].entry_date > ts[k].entry_date
             rest == [j \in 1..(Len(ts) - 1) |-> IF j < k THEN ts[j] ELSE ts[j + 1]]
         IN  <<ts[k]>> \o SortedTrades(rest)

\* the larger of two fractions <<num, den>> with den > 0
FracMax(a, b) == IF a[1] * b[2] >= b[1] * a[2] THEN a ELSE b

\* backtester.py:310-326  the equity curve and the maximum drawdown
RECURSIVE EquityFold(_, _, _)
EquityFold(sorted_trades, k, e) ==
    IF k > Len(sorted_trades) THEN e
    ELSE LET current_equity == e.current_equity
                               + sorted_trades[k].profit_loss_dollar
             peak_equity == Max(e.peak_equity, current_equity)
             drawdown == peak_equity - current_equity
             drawdown_pct == IF peak_equity > 0
                             THEN <<drawdown, peak_equity>> ELSE <<0, 1>>
         IN  EquityFold(sorted_trades, k + 1,
                 [current_equity |-> current_equity,
                  peak_equity |-> peak_equity,
                  max_drawdown |-> Max(e.max_drawdown, drawdown),
                  max_drawdown_pct |-> FracMax(e.max_drawdown_pct, drawdown_pct)])

\* backtester.py:311-314
EquityStart ==
    [current_equity |-> 0, peak_equity |-> 0, max_drawdown |-> 0,
     max_drawdown_pct |-> <<0, 1>>]

\* an aggregate that starts with a drawdown
InitialResults_drawdown ==
    [total_trades |-> 0, winning_trades |-> 0, losing_trades |-> 0,
     winning_trades_dollar |-> 0, losing_trades_dollar |-> 0,
     profit_factor |-> [inf |-> FALSE, num |-> 0, den |-> 1],
     max_drawdown |-> 1, max_drawdown_pct |-> <<0, 1>>]

\* backtester.py:110-127 (379-396)  max_drawdown_pct is a fraction of the
\* peak: the percentage is 100 * num / den (line 349)
InitialResults ==
    [total_trades |-> 0, winning_trades |-> 0, losing_trades |-> 0,
     winning_trades_dollar |-> 0, losing_trades_dollar |-> 0,
     profit_factor |-> [inf |-> FALSE, num |-> 0, den |-> 1],
     max_drawdown |-> 0, max_drawdown_pct |-> <<0, 1>>]

\* backtester.py:137-140, 160-164
NoTrade ==
    [entry_date |-> 0, signal_type |-> "", entry_price |-> 0, stop_loss |-> NaN,
     profit_target_price |-> 0, i |-> 0, low |-> 0, high |-> 0,
     exit_type |-> "", exit_price |-> 0, exit_date |-> 0, missed |-> FALSE,
     max_excursion |-> 0, max_favorable |-> 0,
     \* bookkeeping: the lowest low and the highest high of the bars scanned
     \* without an exit, the entry price among them; the entry came before
     \* the exit bar of the trade recorded last
     lowest |-> 0, highest |-> 0, overlaps |-> FALSE]

AccStart ==
    [total_trades |-> 0, winning_trades |-> 0, losing_trades |-> 0,
     winning_trades_dollar |-> 0, losing_trades_dollar |-> 0,
     total_profit |-> 0, total_win_profit |-> 0, total_loss |-> 0,
     \* bookkeeping: entry rows read that had a direction and a stoploss
     complete |-> 0]

\* a call that has not been made
BtParked ==
    /\ bpc = "none"
    /\ cfg = [variant |-> "pct", param |-> 0, commission |-> 0, slippage |-> 0,
              nRows |-> 0, lastClose |-> 0]
    /\ sim = NoTrade /\ acc = AccStart /\ trades = <<>>
    /\ results = InitialResults

\* backtester.py:93, 362  the arguments of one call
BtInit ==
    /\ bpc = "call"
    /\ \E v \in {"pct", "rr"}, cs \in CostPairs, n \in 1..MaxRows, lc \in Quotes :
       \E x \in (IF v = "pct" THEN PctTargets ELSE RRRatios) :
          cfg = [variant |-> v, param |-> x, commission |-> cs[1],
                 slippage |-> cs[2], nRows |-> n, lastClose |-> lc]
    /\ sim = NoTrade /\ acc = AccStart /\ trades = <<>>
    /\ results = InitialResults

\* A bar touches a level of the trade (the reading of "touch" in the scan's
\* comments, lines 177, 184, 202, 209).
Touches(signal_type, low, high, stop_loss, target) ==
    IF signal_type = "LONG"
    THEN low <= stop_loss \/ high * Hundred >= target
    ELSE high >= stop_loss \/ low * Hundred <= target

\* backtester.py:130-134 (399-403)  no entry signal in df
ReturnEmpty ==
    /\ bpc = "call"
    /\ bpc' = "returned"
    /\ results' = InitialResults
    /\ UNCHANGED <<cfg, sim, acc, trades>>
    /\ UNCHANGED <<detVars, callVars, genVars, streamVars>>

\* the close of the row at position e
CloseAt(e, c) == e = cfg.nRows => c = cfg.lastClose

\* backtester.py:142-145 (411-414)  an entry row without a signal type or
\* without a stoploss is passed over
SkipEntry ==
    /\ bpc \in {"call", "loop"}
    /\ \E e \in (sim.entry_date + 1)..cfg.nRows :
        /\ \E st \in {"LONG", "SHORT", NoType}, sl \in StopLevels \cup {NaN} :
              Skips(st, sl)
        /\ sim' = [NoTrade EXCEPT !.entry_date = e]
    /\ acc' = [acc EXCEPT !.total_trades = @ + 1]
    /\ bpc' = "loop"
    /\ UNCHANGED <<cfg, trades, results>>
    /\ UNCHANGED <<detVars, callVars, genVars, streamVars>>

\* backtester.py:142-171 (411-442)  the next entry row: levels and locals
NextEntry ==
    /\ bpc \in {"call", "loop"}
    /\ \E e \in (sim.entry_date + 1)..cfg.nRows,
          st \in {"LONG", "SHORT", NoType}, c \in Quotes,
          sl \in StopLevels \cup {NaN} :
        /\ ~Skips(st, sl)
        /\ CloseAt(e, c)
        /\ sim' = [NoTrade EXCEPT
                     !.entry_date = e, !.signal_type = st,
                     !.entry_price = c, !.stop_loss = sl,
                     !.profit_target_price = TargetPrice(cfg, st, c, sl),
                     !.i = ScanStart(e),
                     !.lowest = c, !.highest = c,
                     !.overlaps = (e < sim.exit_date)]
        /\ acc' = [acc EXCEPT
                     !.total_trades = @ + 1,
                     !.complete = IF st # NoType /\ sl # NaN
                                  THEN @ + 1 ELSE @]
    /\ bpc' = "scan"
    /\ UNCHANGED <<cfg, trades, results>>
    /\ UNCHANGED <<detVars, callVars, genVars, streamVars>>

\* backtester.py:171-223 (442-494)  one future bar
ScanBar ==
    /\ bpc = "scan" /\ sim.exit_type = "" /\ sim.i <= cfg.nRows
    /\ \E low \in Quotes, high \in Quotes :
        LET x == ExitCheck(sim.signal_type, low, high, sim.stop_loss,
                           sim.profit_target_price)
        IN  sim' = [sim EXCEPT
                      !.low = low, !.high = high,
                      !.exit_type = x,
                      !.exit_price = IF x = "" THEN 0
                                     ELSE ExitPrice(x, sim.stop_loss,
                                                    sim.profit_target_price),
                      !.exit_date = IF x = "" THEN 0 ELSE sim.i,
                      !.i = IF x = "" THEN sim.i + 1 ELSE sim.i,
                      !.max_excursion =
                          IF x = ""
                          THEN Max(@, AdverseMove(sim.signal_type,
                                          sim.entry_price, low, high))
                          ELSE @,
                      !.max_favorable =
                          IF x = ""
                          THEN Max(@, FavorableMove(sim.signal_type,
                                          sim.entry_price, low, high))
                          ELSE @,
                      !.lowest = IF x = "" THEN Min(@, low) ELSE @,
                      !.highest = IF x = "" THEN Max(@, high) ELSE @,
                      !.missed = sim.missed \/
                                 (x = "" /\ Touches(sim.signal_type, low, high,
                                                    sim.stop_loss,
                                                    sim.profit_target_price))]
    /\ UNCHANGED <<bpc, cfg, acc, trades, results>>
    /\ UNCHANGED <<detVars, callVars, genVars, streamVars>>

\* backtester.py:225-229 (496-500)  the data ended before an exit
ScanEnd ==
    /\ bpc = "scan" /\ sim.exit_type = "" /\ sim.i > cfg.nRows
    /\ sim' = [sim EXCEPT !.exit_type = "OPEN",
                          !.exit_price = OpenPrice(cfg.lastClose,
                                                   sim.entry_price),
                          !.exit_date = cfg.nRows]
    /\ UNCHANGED <<bpc, cfg, acc, trades, results>>
    /\ UNCHANGED <<detVars, callVars, genVars, streamVars>>

\* backtester.py:231-285 (502-550)  the trade is recorded and counted; the
\* bar the scan stopped at is not read again
RecordTrade ==
    /\ bpc = "scan" /\ sim.exit_type # ""
    /\ LET trade_pl_pct == TradePlPct(sim.signal_type, sim.entry_price,
                                      sim.exit_price, cfg.commission,
                                      cfg.slippage)
           dollar_pl == DollarPl(sim.signal_type, sim.entry_price,
                                 sim.exit_price)
           \* profit_loss_amount (line 260), in units of 1/(100 * PctDen)
           amount == trade_pl_pct * position_size
           \* of the trade dict, the fields the statistics read later
           trade == [entry_date |-> sim.entry_date,
                     profit_loss_pct |-> trade_pl_pct,
                     profit_loss_dollar |-> dollar_pl]
           won == PctWin(trade_pl_pct)
           dollars == cfg.variant = "pct"
       IN  /\ trades' = Append(trades, trade)
           /\ acc' = [acc EXCEPT
                 !.total_profit = @ + amount,
                 !.winning_trades = IF won THEN @ + 1 ELSE @,
                 !.total_win_profit = IF won THEN @ + amount ELSE @,
                 !.losing_trades = IF won THEN @ ELSE @ + 1,
                 !.total_loss = IF won THEN @ ELSE @ + Abs(amount),
                 !.winning_trades_dollar =
                     IF dollars /\ DollarWin(dollar_pl, trade_pl_pct)
                     THEN @ + 1 ELSE @,
                 !.losing_trades_dollar =
                     IF dollars /\ ~DollarWin(dollar_pl, trade_pl_pct)
                     THEN @ + 1 ELSE @]
    /\ sim' = [sim EXCEPT !.low = 0, !.high = 0,
                          !.max_excursion = 0, !.max_favorable = 0,
                          !.lowest = 0, !.highest = 0, !.overlaps = FALSE]
    /\ bpc' = "loop"
    /\ UNCHANGED <<cfg, results>>
    /\ UNCHANGED <<detVars, callVars, genVars, streamVars>>

\* backtester.py:287-360 (552-563)  the statistics of the call
Finish ==
    /\ bpc = "loop"
    /\ LET e == IF cfg.variant = "pct"
                THEN EquityFold(SortedTrades(trades), 1, EquityStart)
                ELSE EquityStart
       IN  results' =
             [total_trades |-> acc.total_trades,
              winning_trades |-> acc.winning_trades,
              losing_trades |-> acc.losing_trades,
              winning_trades_dollar |-> acc.winning_trades_dollar,
              losing_trades_dollar |-> acc.losing_trades_dollar,
              profit_factor |-> ProfitFactor(acc.total_win_profit,
                                             acc.total_loss),
              max_drawdown |-> e.max_drawdown,
              max_drawdown_pct |-> e.max_drawdown_pct]
    /\ bpc' = "returned"
    /\ UNCHANGED <<cfg, sim, acc, trades>>
    /\ UNCHANGED <<detVars, callVars, genVars, streamVars>>

BtNext ==
    \/ ReturnEmpty
    \/ SkipEntry
    \/ NextEntry
    \/ ScanBar
    \/ ScanEnd
    \/ RecordTrade
    \/ Finish

\* ------------------------------------------------------------- backtest()

MaxTargets == 2
PctValues == {5, 10}
DollarValues == {100, 250}

RECURSIVE SeqsUpTo(_, _)
SeqsUpTo(S, n) ==
    IF n = 0 THEN {<<>>}
    ELSE LET shorter == SeqsUpTo(S, n - 1)
         IN  shorter \cup {Append(q, v) : q \in shorter, v \in S}
None == [none |-> TRUE, list |-> <<>>]
ListArgs(S) == {None} \cup {[none |-> FALSE, list |-> q] : q \in SeqsUpTo(S, MaxTargets)}

\* backtester.py:56
DefaultTargets == <<5, 10, 15>>

\* backtester.py:65, 71, 77  the keys of test_results
TargetKey(target) == [prefix |-> "Target_", value |-> target, suffix |-> "%"]
RRKey(rr_ratio) == [prefix |-> "RR_1:", value |-> rr_ratio, suffix |-> ""]
DollarKey(dollar_target) == [prefix |-> "$", value |-> dollar_target, suffix |-> ""]

\* the aggregate a call of _process_profit_target / _process_risk_reward on
\* df returns (SpecProcess computes it), named here by the call that made it
ResultOf(variant, param) == [variant |-> variant, param |-> param]

\* the methods class StrategyBacktester defines that backtest() calls
Methods == {"_process_profit_target", "_process_risk_reward"}

\* backtester.py:137, 358 (406, 561)  the list `trades` of one _process_* call,
\* named by the call of backtest() and the aggregate it belongs to
TradesOf(call, aggregate) == <<[call |-> call, of |-> aggregate]>>

Store(d, key, value) ==
    [k \in DOMAIN d \cup {key} |-> IF k = key THEN value ELSE d[k]]
EmptyDict == [k \in {} |-> ResultOf("", 0)]

CallParked ==
    /\ dpc = "none" /\ has_columns = TRUE
    /\ profit_targets = None /\ risk_reward_ratios = None
    /\ profit_targets_dollar = None
    /\ it = 1 /\ test_results = EmptyDict /\ self_results = EmptyDict
    /\ self_trades = <<>> /\ call_no = 1
    /\ error = ""

\* backtester.py:13-23, 25-27  a fresh backtester and the arguments of a call
CallInit ==
    /\ dpc = "call"
    /\ has_columns \in BOOLEAN
    /\ profit_targets \in ListArgs(PctValues)
    /\ risk_reward_ratios \in ListArgs(RRRatios)
    /\ profit_targets_dollar \in ListArgs(DollarValues)
    /\ it = 1 /\ test_results = EmptyDict /\ self_results = EmptyDict
    /\ self_trades = <<>> /\ call_no = 1
    /\ error = ""

\* backtester.py:49-52
MissingColumns ==
    /\ dpc = "call" /\ ~has_columns
    /\ dpc' = "raised" /\ error' = "ValueError"
    /\ UNCHANGED <<has_columns, profit_targets, risk_reward_ratios,
                   profit_targets_dollar, it, test_results, self_results,
                   self_trades, call_no>>
    /\ UNCHANGED <<detVars, btVars, genVars, streamVars>>

\* backtester.py:55-59
Enter ==
    /\ dpc = "call" /\ has_columns
    /\ profit_targets' =
           IF /\ profit_targets.none /\ risk_reward_ratios.none
              /\ profit_targets_dollar.none
           THEN [none |-> FALSE, list |-> DefaultTargets]
           ELSE profit_targets
    /\ test_results' = EmptyDict
    /\ dpc' = "pct" /\ it' = 1
    /\ UNCHANGED <<has_columns, risk_reward_ratios, profit_targets_dollar,
                   self_results, self_trades, call_no, error>>
    /\ UNCHANGED <<detVars, btVars, genVars, streamVars>>

\* one turn of a for loop: call the method, store what it returns under key
LoopTurn(method, key, value) ==
    IF method \in Methods
    THEN /\ test_results' = Store(test_results, key, value)
         /\ self_trades' = self_trades \o TradesOf(call_no, value)
         /\ it' = it + 1
         /\ UNCHANGED <<dpc, error>>
    ELSE /\ dpc' = "raised" /\ error' = "AttributeError"
         /\ UNCHANGED <<it, test_results, self_trades>>

LoopFrame ==
    /\ UNCHANGED <<has_columns, profit_targets, risk_reward_ratios,
                   profit_targets_dollar, self_results, call_no>>
    /\ UNCHANGED <<detVars, btVars, genVars, streamVars>>

Pending(arg) == ~arg.none /\ it <= Len(arg.list)

\* backtester.py:62-65
PctTurn ==
    /\ dpc = "pct" /\ Pending(profit_targets)
    /\ LET target == profit_targets.list[it]
       IN  LoopTurn("_process_profit_target", TargetKey(target),
                    ResultOf("pct", target))
    /\ LoopFrame

PctDone ==
    /\ dpc = "pct" /\ ~Pending(profit_targets)
    /\ dpc' = "rr" /\ it' = 1
    /\ UNCHANGED <<test_results, self_trades, error>>
    /\ LoopFrame

\* backtester.py:68-71
RRTurn ==
    /\ dpc = "rr" /\ Pending(risk_reward_ratios)
    /\ LET rr_ratio == risk_reward_ratios.list[it]
       IN  LoopTurn("_process_risk_reward", RRKey(rr_ratio),
                    ResultOf("rr", rr_ratio))
    /\ LoopFrame

RRDone ==
    /\ dpc = "rr" /\ ~Pending(risk_reward_ratios)
    /\ dpc' = "dollar" /\ it' = 1
    /\ UNCHANGED <<test_results, self_trades, error>>
    /\ LoopFrame

\* backtester.py:74-77
DollarTurn ==
    /\ dpc = "dollar" /\ Pending(profit_targets_dollar)
    /\ LET dollar_target == profit_targets_dollar.list[it]
       IN  LoopTurn("_process_dollar_target", DollarKey(dollar_target),
                    ResultOf("dollar", dollar_target))
    /\ LoopFrame

\* backtester.py:80-81
Return ==
    /\ dpc = "dollar" /\ ~Pending(profit_targets_dollar)
    /\ self_results' = test_results
    /\ dpc' = "returned"
    /\ UNCHANGED <<has_columns, profit_targets, risk_reward_ratios,
                   profit_targets_dollar, it, test_results, self_trades,
                   call_no, error>>
    /\ UNCHANGED <<detVars, btVars, genVars, streamVars>>

\* backtester.py:25-27  the same object is called again; self.results and
\* self.trades are what the calls before left in them
CallAgain ==
    /\ dpc \in {"returned", "raised"} /\ call_no < MaxCalls
    /\ call_no' = call_no + 1
    /\ dpc' = "call"
    /\ has_columns' \in BOOLEAN
    /\ profit_targets' \in ListArgs(PctValues)
    /\ risk_reward_ratios' \in ListArgs(RRRatios)
    /\ profit_targets_dollar' \in ListArgs(DollarValues)
    /\ it' = 1 /\ test_results' = EmptyDict
    /\ error' = ""
    /\ UNCHANGED <<self_results, self_trades>>
    /\ UNCHANGED <<detVars, btVars, genVars, streamVars>>

CallNext ==
    \/ MissingColumns
    \/ Enter
    \/ PctTurn
    \/ PctDone
    \/ RRTurn
    \/ RRDone
    \/ DollarTurn
    \/ Return

\* ================================================== StreamingStrategyAdapter

\* A candle as the adapter sees it: its timestamp, and the entry_signal
\* self.strategy.generate_signals gives its row.  The detector flags a row from
\* the rows up to it, so a row keeps its flag when later candles are appended.
Candle(timestamp, entry_signal) ==
    [timestamp |-> timestamp, entry_signal |-> entry_signal]

\* streaming_adapater.py:163-164, 140  buffer[-self.buffer_size:]
Trim(buffer) ==
    IF Len(buffer) > buffer_size
    THEN SubSeq(buffer, Len(buffer) - buffer_size + 1, Len(buffer))
    ELSE buffer

\* streaming_adapater.py:190  signals_df[signals_df['entry_signal']]
IsEntry(candle) == candle.entry_signal
EntrySignals(buffer) == SelectSeq(buffer, IsEntry)

\* streaming_adapater.py:193-195  the rows of entry_signals that are published
ToPublish(entry_signals) ==
    IF entry_signals = <<>> THEN <<>>
    ELSE <<entry_signals[Len(entry_signals)]>>

StreamParked ==
    /\ apc = "none" /\ running = FALSE
    /\ data_buffer = <<>> /\ published = <<>> /\ clock = 1

\* streaming_adapater.py:12-27  __init__
StreamInit ==
    /\ apc = "new" /\ running = FALSE
    /\ data_buffer = <<>> /\ published = <<>> /\ clock = 1

\* streaming_adapater.py:33-59  start()
StartAdapter ==
    /\ apc = "new"
    /\ running' = TRUE
    /\ data_buffer' = <<>>
    /\ apc' = "fetching"
    /\ UNCHANGED <<published, clock>>
    /\ UNCHANGED <<detVars, btVars, callVars, genVars>>

\* streaming_adapater.py:61-70, 83-150  the historical candles arrive (none on
\* a timeout) and fill the buffer; then handle_live_data is subscribed
FetchHistorical ==
    /\ apc = "fetching"
    /\ \E n \in 0..MaxHistory :
         \E flags \in [1..n -> BOOLEAN] :
            /\ data_buffer' =
                  Trim([i \in 1..n |-> Candle(clock + i - 1, flags[i])])
            /\ clock' = clock + n
    /\ apc' = "live"
    /\ UNCHANGED <<running, published>>
    /\ UNCHANGED <<detVars, btVars, callVars, genVars>>

\* streaming_adapater.py:154-215  _process_market_data for one message
ProcessMarketData ==
    /\ apc = "live" /\ clock <= MaxCandles
    /\ clock' = clock + 1
    /\ IF ~running
       THEN UNCHANGED <<data_buffer, published>>
       ELSE \E entry_signal \in BOOLEAN :
              /\ data_buffer' =
                    Trim(Append(data_buffer, Candle(clock, entry_signal)))
              /\ published' = published \o
                    [i \in 1..Len(ToPublish(EntrySignals(data_buffer'))) |->
                        [timestamp |->
                            ToPublish(EntrySignals(data_buffer'))[i].timestamp,
                         message |-> clock]]
    /\ UNCHANGED <<apc, running>>
    /\ UNCHANGED <<detVars, btVars, callVars, genVars>>

\* streaming_adapater.py:217-233  stop()
StopAdapter ==
    /\ apc \in {"fetching", "live"} /\ running
    /\ running' = FALSE
    /\ UNCHANGED <<apc, data_buffer, published, clock>>
    /\ UNCHANGED <<detVars, btVars, callVars, genVars>>

StreamNext ==
    \/ StartAdapter
    \/ FetchHistorical
    \/ ProcessMarketData
    \/ StopAdapter

\* ------------------------------------------------------- the specifications

vars == <<detVars, btVars, callVars, genVars, streamVars>>

\* the detector over any number of trading days
Init == DetInit /\ BtParked /\ CallParked /\ GenParked /\ StreamParked

Next == DetNext

Spec == Init /\ [][Next]_vars

\* one call of _process_profit_target or _process_risk_reward
InitProcess == DetInit /\ BtInit /\ CallParked /\ GenParked /\ StreamParked

SpecProcess == InitProcess /\ [][BtNext]_vars

\* one call of backtest()
InitBacktest == DetInit /\ BtParked /\ CallInit /\ GenParked /\ StreamParked

SpecBacktest == InitBacktest /\ [][CallNext]_vars

\* the calls of backtest() made on one backtester, one after the other
SessionNext == CallNext \/ CallAgain

SpecSession == InitBacktest /\ [][SessionNext]_vars

\* one call of generate_signals
InitGenerate == DetInit /\ BtParked /\ CallParked /\ GenInit /\ StreamParked

SpecGenerate == InitGenerate /\ [][GenNext]_vars

\* one adapter, from construction, fed with market data
InitStream == DetInit /\ BtParked /\ CallParked /\ GenParked /\ StreamInit

SpecStream == InitStream /\ [][StreamNext]_vars

\* ------------------------------------------------------------ the detector

\* C1: every entry the detector flags has its stoploss strictly on the other
\* side of its entry price (the bar's close): below it for LONG, above it for
\* SHORT, whenever candle I has low <= high (which low <= close <= high gives).
C1_StopOppositeSide ==
    /\ (row.long_entry /\ i_low <= i_high) => row.stoploss < row.close
    /\ (row.short_entry /\ i_low <= i_high) => row.stoploss > row.close

C1_Witness == row.long_entry /\ i_low < i_high /\ row.stoploss = i_low

\* C2: closes after I that run above i_high, fall back to <= i_high (never
\* below i_low) and run above i_high again give exactly two LONG entries, one
\* at the first bar of each run above, and no SHORT entry.
C2_ReArmTwoLongs ==
    /\ path \in {"A1", "B"} => nLong = 1
    /\ path = "A2" => nLong = 2
    /\ path \in {"A1", "B", "A2"} => nShort = 0
    /\ path \in {"A1", "A2"} => (row.long_entry <=> ~prevAbove)

C2_Witness == path = "A2" /\ nLong = 2 /\ idx > dayLen

\* C3 as stated: in a run of consecutive closes above i_high only the first bar
\* carries a LONG entry, and in a run of consecutive closes below i_low only
\* the first carries a SHORT entry.
C3_OneSignalPerRun ==
    /\ row.long_entry => ~prevAbove
    /\ row.short_entry => ~prevBelow

\* C3 amended: the LONG half for every input, the SHORT half when candle I has
\* low <= high.
C3_OneSignalPerRunWellFormed ==
    /\ row.long_entry => ~prevAbove
    /\ (row.short_entry /\ i_low <= i_high) => ~prevBelow

C3_Witness ==
    /\ pc = "entry" /\ prevBelow /\ row.close < i_low /\ i_low <= i_high
    /\ ~row.short_entry /\ nShort = 1

\* C10: a day in which no bar after the opening one is bearish has no entry,
\* whatever the earlier days left behind.
C10_NoBearishNoEvents ==
    ~sawBearish => (nLong = 0 /\ nShort = 0 /\ ~EntrySignal(row))

C10_Witness ==
    /\ pc = "red" /\ idx > dayLen /\ ~sawBearish
    /\ high_signal_generated /\ r_high > 0

\* C11: no bar has both its long-entry and its short-entry flag set, also
\* when candle I has high <= low.
C11_OneEventPerBar == ~(row.long_entry /\ row.short_entry)

C11_Witness ==
    /\ pc = "entry" /\ row.pos > candle_i_idx
    /\ i_high < i_low /\ row.close > i_high /\ row.close < i_low
    /\ row.long_entry /\ ~row.short_entry

\* C12: an event is written on the row of its own bar, after candle I of the
\* same day, with stop I's low for a LONG and I's high for a SHORT; a day of
\* four bars whose fourth closes above I's high has exactly one event, a LONG
\* on the fourth bar with stop I's low.
C12_EventLevels ==
    /\ EntrySignal(row) =>
          /\ pc = "entry" /\ row.pos = idx - 1
          /\ candle_i_idx # NoIdx /\ row.pos > candle_i_idx
          /\ row.close = last_close
    /\ row.long_entry =>
          (row.signal_type = "LONG" /\ row.stoploss = i_low /\ row.close > i_high)
    /\ row.short_entry =>
          (row.signal_type = "SHORT" /\ row.stoploss = i_high /\ row.close < i_low)
    /\ (/\ pc = "entry" /\ dayLen = 4 /\ idx > dayLen
        /\ row.pos > candle_i_idx /\ row.close > i_high) =>
          /\ row.pos = 4 /\ first_red_idx = 2 /\ candle_i_idx = 3
          /\ row.long_entry /\ row.stoploss = i_low
          /\ nLong = 1 /\ nShort = 0

C12_Witness ==
    /\ pc = "entry" /\ dayLen = 4 /\ idx > dayLen
    /\ row.long_entry /\ row.stoploss = i_low /\ nLong = 1
    /\ i_low < i_high /\ r_high < i_high /\ i_high < row.close

\* C17: the first bar of a scanned day is flagged is_first_candle and is
\* never the first red candle, candle I or an entry; its prices are never
\* read.
C17_FirstCandleExcluded ==
    /\ row.pos = 1 =>
          /\ row.is_first_candle
          /\ ~row.first_red_candle /\ ~row.candle_i /\ ~EntrySignal(row)
    /\ row.is_first_candle => row.pos = 1
    /\ first_red_idx # NoIdx => first_red_idx > 1
    /\ candle_i_idx # NoIdx => candle_i_idx > 1

C17_Witness ==
    /\ pc = "red" /\ idx = 2 /\ row.pos = 1 /\ row.is_first_candle
    /\ row.close = 0 /\ ~row.first_red_candle /\ r_high > 0

\* C18: the first red candle is the earliest bar after the opening one with
\* close < open: while it is searched no bar after the opening one was
\* bearish, and the bar marked has close < open.
C18_AnchorIsFirstBearish ==
    /\ pc = "red" => (~sawBearish /\ first_red_idx = NoIdx)
    /\ first_red_idx # NoIdx => sawBearish
    /\ row.first_red_candle =>
          (row.pos = first_red_idx /\ pc = "candle_i" /\ sawBearish)

C18_Witness ==
    /\ row.first_red_candle /\ row.pos = first_red_idx /\ first_red_idx > 2
    /\ pc = "candle_i"

\* C19: candle I is the earliest bar after the first red candle that closes
\* strictly above its high or strictly below its low: while it is searched
\* every bar read after the first red candle closed within [r_low, r_high]
\* and no entry is flagged, and a day that ends the search without finding
\* it has no entry.
C19_BreakoutIsFirstBeyond ==
    /\ row.candle_i =>
          /\ row.pos = candle_i_idx /\ candle_i_idx > first_red_idx
          /\ row.close > r_high \/ row.close < r_low
    /\ pc = "candle_i" =>
          /\ candle_i_idx = NoIdx
          /\ nLong = 0 /\ nShort = 0 /\ ~EntrySignal(row)
          /\ row.pos > first_red_idx =>
                (row.close <= r_high /\ row.close >= r_low /\ ~row.candle_i)

C19_Witness ==
    /\ row.candle_i /\ row.pos > first_red_idx + 1
    /\ row.close > r_high /\ r_low <= r_high

\* C20: a day of fewer than 4 bars is passed over: nothing of it is marked,
\* no day is scanned with fewer than 4 bars, and the next day can begin.
C20_ShortDaySkipped ==
    /\ pc # "idle" => dayLen >= 4
    /\ outcome = "short" =>
          /\ pc = "idle" /\ first_red_idx = NoIdx /\ candle_i_idx = NoIdx
          /\ ~row.first_red_candle /\ ~row.candle_i /\ ~EntrySignal(row)
          /\ nLong = 0 /\ nShort = 0
          /\ ENABLED BeginDay

C20_Witness == outcome = "short" /\ pc = "idle" /\ i_high > 0

\* C22: the flags a day's bars get do not depend on the days before it: the
\* call on the whole table marks each bar as a call on that day alone does,
\* and every level, latch and previous close the scan reads has the value the
\* day alone gives it.
C22_SessionIndependent ==
    /\ ~fresh.diverged
    /\ row.first_red_candle = fresh.first_red_candle
    /\ row.candle_i = fresh.candle_i
    /\ row.long_entry = fresh.long_entry
    /\ row.short_entry = fresh.short_entry
    /\ row.stoploss = fresh.stoploss
    /\ pc \in {"candle_i", "entry"} =>
          (r_high = fresh.r_high /\ r_low = fresh.r_low)
    /\ pc = "entry" =>
          /\ i_high = fresh.i_high /\ i_low = fresh.i_low
          /\ high_signal_generated = fresh.high_signal_generated
          /\ low_signal_generated = fresh.low_signal_generated
          /\ last_close = fresh.last_close

\* a later day's anchor is marked while the latch and the levels of the day
\* before, which had a long entry, are still in the locals
C22_Witness ==
    /\ pc = "candle_i" /\ row.first_red_candle /\ fresh.first_red_candle
    /\ high_signal_generated /\ ~fresh.high_signal_generated
    /\ i_high > 0 /\ fresh.i_high = 0

C36_StagesOrdered ==
    /\ nAnchor <= 1 /\ nBreakout <= 1
    /\ nAnchor = 1 <=> first_red_idx # NoIdx
    /\ nBreakout = 1 <=> candle_i_idx # NoIdx
    /\ row.first_red_candle => row.pos = first_red_idx /\ row.pos > 1
    /\ row.candle_i => row.pos = candle_i_idx
    /\ first_red_idx # NoIdx => first_red_idx > 1
    /\ candle_i_idx # NoIdx =>
          first_red_idx # NoIdx /\ candle_i_idx > first_red_idx
    /\ EntrySignal(row) => candle_i_idx # NoIdx /\ row.pos > candle_i_idx
    /\ nLong + nShort > 0 => nBreakout = 1 /\ nAnchor = 1

\* an entry two rows after candle I, itself two rows after the first red
\* candle
C36_Witness ==
    /\ EntrySignal(row) /\ nAnchor = 1 /\ nBreakout = 1
    /\ first_red_idx = 2 /\ candle_i_idx = 4 /\ row.pos = 6

\* C21: a day whose candle I has high = low has no entry.
C21_DegenerateBreakoutNoSignal ==
    (pc = "entry" /\ i_high = i_low) => ~EntrySignal(row)

\* ------------------------------------------------ generate_signals: claims
Resolved == gpc \in {"returned", "raised"}
NoTimestamp == given.index # "datetime" /\ "date" \notin given.columns
AllSignalColumns == MarkColumns \cup SignalColumns \cup {"entry_signal"}

C24_NoTimestampRaises ==
    NoTimestamp =>
        /\ gpc \in {"called", "copied", "raised"}
        /\ gpc = "raised" => gen_error = "ValueError"
        /\ returned = NoObject
        /\ table = <<>>
        /\ \A o \in Objects : heap[o].columns \cap AllSignalColumns = {}

C24_Witness == NoTimestamp /\ gpc = "raised" /\ gen_error = "ValueError"

\* C28: with the filters on, every row has the anchor and breakout flags the
\* theory gave it, and a row carries a long (short) entry only if the theory
\* gave it one.
C28_FilterIsMask ==
    gpc \in {"filter", "returned"} =>
        /\ Len(table) = Len(unfiltered)
        /\ \A i \in 1..Len(table) :
             /\ table[i].first_red_candle = unfiltered[i].first_red_candle
             /\ table[i].candle_i = unfiltered[i].candle_i
             /\ table[i].long_entry => unfiltered[i].long_entry
             /\ table[i].short_entry => unfiltered[i].short_entry

C28_Witness ==
    /\ gpc = "returned" /\ use_additional_filters
    /\ \E i \in 1..Len(table) :
         \E k \in 1..Len(table) :
            /\ unfiltered[i].long_entry /\ ~table[i].long_entry
            /\ unfiltered[k].short_entry /\ table[k].short_entry

\* C37: in the table a call returns, with the filters off and with them on, a
\* row has a signal_type and a stoploss exactly when it is flagged as an
\* entry.
C37_TypeAndStopIffEntry ==
    gpc = "returned" =>
        \A i \in 1..Len(table) :
            (table[i].signal_type # "" /\ table[i].stoploss # NaN)
                <=> EntrySignal(table[i])

\* the same with the filters off
C37_WithoutFilters ==
    (gpc = "returned" /\ ~use_additional_filters) => C37_TypeAndStopIffEntry


\* ---------------------------------------------------------- the backtester

\* the bar the scan of the current trade stopped at touches the stop / target
ExitBarTouchesStop ==
    IF sim.signal_type = "LONG" THEN sim.low <= sim.stop_loss
                                ELSE sim.high >= sim.stop_loss
ExitBarTouchesTarget ==
    IF sim.signal_type = "LONG"
    THEN sim.high * Hundred >= sim.profit_target_price
    ELSE sim.low * Hundred <= sim.profit_target_price
Exited == bpc = "scan" /\ sim.exit_type \in {"STOP", "TARGET"}

\* C4: when the bar that ends a trade touches both the stop and the target,
\* the trade exits at the stop price with exit type STOP, in the percentage
\* and in the risk-reward variant.
C4_StopBeforeTarget ==
    (Exited /\ ExitBarTouchesStop /\ ExitBarTouchesTarget)
        => (sim.exit_type = "STOP" /\ sim.exit_price = sim.stop_loss * Hundred)

C4_Witness ==
    /\ Exited /\ ExitBarTouchesStop /\ ExitBarTouchesTarget
    /\ sim.signal_type = "LONG" /\ sim.low < sim.high
    /\ sim.stop_loss * Hundred < sim.profit_target_price

\* C5: a trade that exits by STOP or TARGET exits at a bar strictly after the
\* entry bar that touches the stop or the target, and no bar scanned before
\* it touched either level.
C5_EarliestTouch ==
    Exited => /\ sim.exit_date > sim.entry_date
              /\ sim.exit_date = sim.i
              /\ ExitBarTouchesStop \/ ExitBarTouchesTarget
              /\ ~sim.missed

C5_Witness ==
    /\ Exited /\ sim.exit_date = sim.entry_date + 2
    /\ sim.exit_type = "TARGET" /\ ~ExitBarTouchesStop

\* the trade in sim has just been appended to trades
Recorded == bpc = "loop" /\ sim.exit_type # ""
LastTrade == trades[Len(trades)]
\* the price move of the trade in sim in its own direction, in hundredths
FavourableMove ==
    IF sim.signal_type = "LONG"
    THEN sim.exit_price - sim.entry_price * Hundred
    ELSE sim.entry_price * Hundred - sim.exit_price
Costs == cfg.commission + cfg.slippage

\* C13: the percentage P&L of a recorded trade is its price move in its own
\* direction in percent of the entry price, minus commission, minus
\* slippage; a LONG at 2 stopped at 1 has -50 - commission - slippage.
C13_PctPl ==
    Recorded =>
        /\ LastTrade.entry_date = sim.entry_date
        /\ LastTrade.profit_loss_pct * sim.entry_price
             = FavourableMove * PctDen - Costs * PctDen * sim.entry_price
        /\ (/\ sim.signal_type = "LONG" /\ sim.entry_price = 2
            /\ sim.stop_loss = 1 /\ sim.exit_type = "STOP")
               => LastTrade.profit_loss_pct
                    = (0 - 50 - cfg.commission - cfg.slippage) * PctDen

C13_Witness ==
    /\ Recorded /\ sim.signal_type = "LONG" /\ sim.entry_price = 2
    /\ sim.stop_loss = 1 /\ sim.exit_type = "STOP"
    /\ sim.exit_date = sim.entry_date + 2
    /\ cfg.variant = "pct" /\ cfg.commission > 0 /\ cfg.slippage > cfg.commission
    /\ LastTrade.profit_loss_pct = (0 - 110) * PctDen

\* C14: the dollar P&L of a recorded trade has magnitude |exit - entry| *
\* contract_value * contracts, is positive exactly when the exit is strictly
\* on the favourable side of the entry and is the negated magnitude
\* otherwise, whatever commission and slippage are.
C14_DollarPl ==
    Recorded =>
        LET magnitude == Abs(sim.exit_price - sim.entry_price * Hundred)
                         * contract_value * contracts
        IN  /\ Abs(LastTrade.profit_loss_dollar) = magnitude
            /\ LastTrade.profit_loss_dollar > 0 <=> FavourableMove > 0
            /\ FavourableMove <= 0 => LastTrade.profit_loss_dollar = 0 - magnitude

C14_Witness ==
    /\ Recorded /\ sim.signal_type = "SHORT" /\ Costs > 0
    /\ sim.exit_price < sim.entry_price * Hundred
    /\ LastTrade.profit_loss_dollar > 0

DollarWins == Cardinality({k \in 1..Len(trades) : trades[k].profit_loss_dollar > 0})
PctLosses == Cardinality({k \in 1..Len(trades) : trades[k].profit_loss_pct <= 0})

\* C15: in the percentage variant a trade whose favourable move in percent is
\* positive but not larger than commission + slippage is recorded with a
\* positive dollar P&L and a non-positive percentage P&L, and the counters
\* count every trade by each figure on its own: a dollar win is a trade with
\* positive dollar P&L, a percentage loss one with non-positive percentage P&L.
C15_FiguresNotReconciled ==
    cfg.variant = "pct" =>
        /\ (Recorded /\ FavourableMove > 0
                /\ FavourableMove <= Costs * sim.entry_price)
              => (LastTrade.profit_loss_dollar > 0 /\ LastTrade.profit_loss_pct <= 0)
        /\ bpc \in {"loop", "returned"} =>
              /\ acc.winning_trades_dollar = DollarWins
              /\ acc.losing_trades_dollar = Len(trades) - DollarWins
              /\ acc.losing_trades = PctLosses
              /\ acc.winning_trades = Len(trades) - PctLosses
        /\ (bpc = "returned" /\ results.total_trades > 0) =>
              /\ results.winning_trades_dollar = DollarWins
              /\ results.losing_trades = PctLosses

C15_Witness ==
    /\ cfg.variant = "pct" /\ bpc = "returned" /\ Len(trades) = 1
    /\ trades[1].profit_loss_dollar > 0 /\ trades[1].profit_loss_pct <= 0
    /\ results.winning_trades_dollar = 1 /\ results.losing_trades_dollar = 0
    /\ results.losing_trades = 1 /\ results.winning_trades = 0

\* C16: a trade is OPEN exactly when the scan ran to the end of the data
\* without a bar touching the stop or the target; it then exits at the close
\* of the last row, dated at the last row, and is appended to the trades and
\* counted like any other.
C16_OpenTrade ==
    /\ sim.exit_type = "OPEN" =>
          /\ sim.i > cfg.nRows /\ ~sim.missed
          /\ sim.exit_price = cfg.lastClose * Hundred
          /\ sim.exit_date = cfg.nRows
    /\ (Recorded /\ sim.exit_type = "OPEN") =>
          /\ LastTrade.entry_date = sim.entry_date
          /\ acc.winning_trades + acc.losing_trades = Len(trades)
          /\ LastTrade.profit_loss_pct * sim.entry_price
               = FavourableMove * PctDen - Costs * PctDen * sim.entry_price
    /\ (bpc = "scan" /\ sim.exit_type = "" /\ sim.i > cfg.nRows) => ~sim.missed

C16_Witness ==
    /\ Recorded /\ sim.exit_type = "OPEN"
    /\ sim.entry_date + 2 = cfg.nRows
    /\ sim.exit_price # sim.entry_price * Hundred
    /\ sim.stop_loss < sim.entry_price

\* cumulative dollar P&L after the first k trades in entry order, and its
\* running peak (which starts at 0)
RECURSIVE EquityAfter(_)
EquityAfter(k) ==
    IF k = 0 THEN 0
    ELSE EquityAfter(k - 1) + SortedTrades(trades)[k].profit_loss_dollar
PeakAfter(k) ==
    LET seen == {0} \cup {EquityAfter(j) : j \in 1..k}
    IN  CHOOSE m \in seen : \A x \in seen : m >= x

\* C6: the aggregate's max_drawdown_pct (100 * num / den) lies in 0..100.
C6_DrawdownPctInRange ==
    bpc = "returned" =>
        /\ results.max_drawdown_pct[1] >= 0
        /\ results.max_drawdown_pct[1] <= results.max_drawdown_pct[2]

\* C7: the aggregate's max_drawdown is at most the peak equity in force at
\* every step of the fold at which a drawdown of that size was recorded.
C7_DrawdownWithinPeak ==
    bpc = "returned" =>
        \A k \in 1..Len(trades) :
            (PeakAfter(k) - EquityAfter(k) = results.max_drawdown)
                => results.max_drawdown <= PeakAfter(k)

\* gross winning and gross losing amount of the trade list
WinAmount(t) == IF t.profit_loss_pct > 0 THEN t.profit_loss_pct * position_size ELSE 0
LossAmount(t) == IF t.profit_loss_pct > 0 THEN 0 ELSE Abs(t.profit_loss_pct * position_size)
RECURSIVE GrossWinOf(_)
GrossWinOf(ts) ==
    IF ts = <<>> THEN 0 ELSE WinAmount(Head(ts)) + GrossWinOf(Tail(ts))
RECURSIVE GrossLossOf(_)
GrossLossOf(ts) ==
    IF ts = <<>> THEN 0 ELSE LossAmount(Head(ts)) + GrossLossOf(Tail(ts))
GrossWin == GrossWinOf(trades)
GrossLoss == GrossLossOf(trades)
IsQuotient(pf, w, l) == ~pf.inf /\ l > 0 /\ pf.num * l = w * pf.den

Skipped == bpc = "loop" /\ sim.signal_type = ""

C27_NoEntriesEmptyAggregate ==
    (bpc = "returned" /\ acc.total_trades = 0) =>
        /\ trades = <<>>
        /\ results.total_trades = 0
        /\ results.winning_trades = 0 /\ results.losing_trades = 0
        /\ results.winning_trades_dollar = 0
        /\ results.losing_trades_dollar = 0
        /\ results.max_drawdown = 0
        /\ results.max_drawdown_pct[1] = 0

C27_Witness ==
    /\ bpc = "returned" /\ acc.total_trades = 0 /\ cfg.variant = "rr"
    /\ results.total_trades = 0 /\ cfg.nRows > 1

\* the largest fall of the cumulative dollar P&L below its running peak
Falls == {PeakAfter(k) - EquityAfter(k) : k \in 1..Len(trades)}
MaxFall == CHOOSE m \in {0} \cup Falls : \A f \in Falls : m >= f

\* C29: in either variant the aggregate's max_drawdown is the largest fall of
\* the cumulative dollar P&L below its running peak, and it is positive when
\* the equity has ever been below an earlier peak.
C29_DrawdownEveryVariant ==
    bpc = "returned" =>
        /\ results.max_drawdown = MaxFall
        /\ MaxFall > 0 => results.max_drawdown > 0

\* C30: in the risk-reward variant the target is the entry price plus
\* (LONG) or minus (SHORT) the ratio times |entry - stop|.
C30_TargetFromAbsoluteRisk ==
    (bpc = "scan" /\ cfg.variant = "rr") =>
        sim.profit_target_price =
            (IF sim.signal_type = "LONG"
             THEN sim.entry_price
                  + Abs(sim.entry_price - sim.stop_loss) * cfg.param
             ELSE sim.entry_price
                  - Abs(sim.entry_price - sim.stop_loss) * cfg.param)
            * Hundred

\* C33: every entry row that has a direction and a stoploss makes exactly one
\* trade, whether or not the trade before it had left the market: the trades
\* made are as many as such rows read, the one being simulated included.
C33_OneTradePerEvent ==
    /\ bpc \in {"call", "loop", "returned"} => Len(trades) = acc.complete
    /\ bpc = "scan" => Len(trades) + 1 = acc.complete

\* the second trade was entered before the exit bar of the first
C33_Witness ==
    /\ bpc = "scan" /\ sim.exit_type # "" /\ sim.overlaps
    /\ Len(trades) = 1 /\ acc.complete = 2

\* C34: the excursions of the trade being simulated are the largest moves
\* against and in favour of it, in percent of the entry price and never below
\* 0, over the bars after the entry bar that the scan passed without an exit
\* (all the remaining bars when the trade stays OPEN).
C34_Excursions ==
    bpc = "scan" =>
        /\ sim.lowest <= sim.entry_price /\ sim.entry_price <= sim.highest
        /\ sim.max_excursion =
              IF sim.signal_type = "LONG"
              THEN PctOf(sim.entry_price - sim.lowest, sim.entry_price)
              ELSE PctOf(sim.highest - sim.entry_price, sim.entry_price)
        /\ sim.max_favorable =
              IF sim.signal_type = "LONG"
              THEN PctOf(sim.highest - sim.entry_price, sim.entry_price)
              ELSE PctOf(sim.entry_price - sim.lowest, sim.entry_price)

\* a short that stays open over two bars, one of which went against it
C34_Witness ==
    /\ bpc = "scan" /\ sim.exit_type = "OPEN" /\ sim.signal_type = "SHORT"
    /\ sim.entry_date = 1 /\ cfg.nRows = 3
    /\ sim.max_excursion > 0 /\ sim.high = sim.entry_price

\* C38: the aggregate's total_trades is the number of trades in its list and
\* the sum of its winning and losing trades.
C38_TotalIsTradeCount ==
    bpc = "returned" =>
        /\ results.total_trades = Len(trades)
        /\ results.total_trades
               = results.winning_trades + results.losing_trades

PctWins == Cardinality({k \in 1..Len(trades) : trades[k].profit_loss_pct > 0})
\* the trade in sim was entered on the last row of the table
OnFinalBar == sim.entry_date = cfg.nRows /\ sim.exit_type # ""

\* C39: the winners are the trades with a positive P&L, on either basis, and
\* a trade entered on the last row stays OPEN at its entry price on that row,
\* with a dollar P&L of 0 and no positive percentage P&L: a losing trade on
\* both counts.
C39_FinalBarEntryLoses ==
    /\ bpc \in {"loop", "returned"} =>
          /\ acc.winning_trades = PctWins
          /\ acc.losing_trades = Len(trades) - PctWins
          /\ cfg.variant = "pct" =>
                /\ acc.winning_trades_dollar = DollarWins
                /\ acc.losing_trades_dollar = Len(trades) - DollarWins
    /\ (bpc \in {"scan", "loop"} /\ OnFinalBar) =>
          /\ sim.exit_type = "OPEN"
          /\ sim.exit_price = sim.entry_price * Hundred
          /\ sim.exit_date = sim.entry_date
    /\ (bpc = "loop" /\ OnFinalBar) =>
          /\ LastTrade.profit_loss_dollar = 0
          /\ LastTrade.profit_loss_pct <= 0

\* a trade entered on the last row, free of costs, recorded as the only one
C39_Witness ==
    /\ bpc = "loop" /\ OnFinalBar /\ Len(trades) = 1
    /\ cfg.variant = "pct" /\ cfg.commission + cfg.slippage = 0
    /\ LastTrade.profit_loss_pct = 0
    /\ acc.losing_trades = 1 /\ acc.losing_trades_dollar = 1

\* ----------------------------------------------------------------- backtest()

Listed(arg) == {arg.list[j] : j \in 1..Len(arg.list)}
ListedKeys ==
    {TargetKey(v) : v \in Listed(profit_targets)}
        \cup {RRKey(v) : v \in Listed(risk_reward_ratios)}
        \cup {DollarKey(v) : v \in Listed(profit_targets_dollar)}

\* C9: a call of backtest() on a df with the required columns completes,
\* whichever of the three lists it is given, and returns exactly one
\* aggregate for each listed value of each variant.
C9_AllVariantsRunnable ==
    has_columns =>
        /\ dpc # "raised"
        /\ dpc = "returned" => DOMAIN self_results = ListedKeys

\* a list was passed and it is empty
Empty(arg) == ~arg.none /\ arg.list = <<>>
GivenEmpty ==
    Empty(profit_targets) \/ Empty(risk_reward_ratios)
        \/ Empty(profit_targets_dollar)

\* C25: a call that is given an empty variant list ends with an error: it
\* starts no loop, builds no aggregate and does not return.
C25_EmptyListRejected ==
    (GivenEmpty /\ dpc # "call") =>
        /\ dpc = "raised"
        /\ test_results = EmptyDict

\* the batches of self.trades that the call in progress made
OwnTrades == SelectSeq(self_trades, LAMBDA b : b.call = call_no)

\* C31: when a call has returned, self.results holds the aggregates of that
\* call and self.trades the trades of that call, whatever calls came before.
C31_NoStateAcrossCalls ==
    dpc = "returned" =>
        /\ self_results = test_results
        /\ self_trades = OwnTrades

\* C32: a variant run writes its own aggregate and nothing else that the
\* runs of the call share: the step that completes a run leaves self.trades
\* as it was.
C32_RunWritesOwnAggregateOnly ==
    [][(it' = it + 1) => self_trades' = self_trades]_vars


\* ------------------------------------------------------ the streaming adapter

\* C40: every entry is published at most once (no two publications carry the
\* same timestamp), and a message publishes only the entry it brings itself:
\* a message that brings no new entry publishes nothing.
C40_PublishesOnlyNew ==
    /\ \A i \in 1..Len(published) : \A j \in 1..Len(published) :
          published[i].timestamp = published[j].timestamp => i = j
    /\ \A i \in 1..Len(published) :
          published[i].timestamp = published[i].message

=============================================================================
